---- MODULE Spec2Model ----
(***************************************************************************)
(* Model of the fixed-time two-power-law hardening core of holodeck:       *)
(* the hardening rate, the coalescence-time integrator, the normalization  *)
(* solver and the dynamic binary-number mapper (src/unnamed/part_001).     *)
(*                                                                         *)
(* Number model.  The code computes in IEEE doubles; the model computes in *)
(* integers, in fixed point, and rounds every division toward zero:        *)
(*   - a separation is an integer; log10 values are held in units of       *)
(*     log10(2), so pow(10.0, x) is 2^x and log10 is the base-2 logarithm; *)
(*   - a hardening rate da/dt carries RATE_SCALE (rate * RATE_SCALE);      *)
(*   - a mass ratio carries MRAT_ONE (1.0 is MRAT_ONE);                    *)
(*   - a redshift carries REDZ_ONE (1.0 is REDZ_ONE);                      *)
(*   - an amplitude (norm) carries 2^NORM_FRAC;                            *)
(*   - a time is in units of separation / rate / RATE_SCALE.               *)
(* Arrays are functions on 0..size-1, as in the code.                      *)
(***************************************************************************)
EXTENDS Integers, Sequences, FiniteSets, TLC

\* ---------------------------------------------------------------- bounds
MaxSteps == 2       \* largest integration step count (num_steps, nsteps)
MaxNM == 2          \* largest mass grid
MaxNQ == 2          \* largest mass-ratio grid
MaxNZ == 2          \* largest start-redshift grid
MaxNF == 3          \* largest number of target frequency edges
MaxPairs == 2       \* largest number of (mass, ratio) pairs in one batch
MaxExtra == 1       \* largest excess of the fields' redshift axis over the grid

\* ---------------------------------------------------------- number model
RATE_SCALE == 65536
MRAT_ONE == 4
REDZ_ONE == 16
NORM_FRAC == 8
INF == 100000000            \* IEEE +infinity
NAN == -999999999           \* IEEE not-a-number (the "no crossing" sentinel)

Abs(x) == IF x < 0 THEN -x ELSE x

\* double division a / b, rounded toward zero; x / 0.0 is an infinity
DDiv(a, b) ==
    IF b = 0 THEN (IF a > 0 THEN INF ELSE IF a < 0 THEN -INF ELSE NAN)
    ELSE IF (a < 0) = (b < 0) THEN Abs(a) \div Abs(b)
    ELSE -(Abs(a) \div Abs(b))

\* double product a * b: beyond the largest finite value it is an infinity
DMul(a, b) ==
    IF a = 0 \/ b = 0 THEN 0
    ELSE IF Abs(a) > INF \div Abs(b) THEN (IF (a < 0) = (b < 0) THEN INF ELSE -INF)
    ELSE a * b

\* 0-based array from a sequence
Arr(s) == [i \in 0..(Len(s) - 1) |-> s[i + 1]]
Size(a) == Cardinality(DOMAIN a)

\* strictly ascending sequences of length n over a set of numbers
AscSeqs(V, n) == {s \in [1..n -> V] : \A i \in 1..n, j \in 1..n : i < j => s[i] < s[j]}

\* log10(x): in units of log10(2)
RECURSIVE log10(_)
log10(x) == IF x <= 1 THEN 0 ELSE 1 + log10(x \div 2)

\* (variant: the smallest result is one unit instead of 0)
pow10_no_underflow(x, frac) ==
    IF x + frac < 0 THEN 1
    ELSE IF x + frac > log10(INF) THEN INF
    ELSE 2 ^ (x + frac)

\* pow(10.0, x) with `frac` fractional bits; underflows to 0, overflows to INF
pow10(x, frac) ==
    IF x + frac < 0 THEN 0
    ELSE IF x + frac > log10(INF) THEN INF
    ELSE 2 ^ (x + frac)

\* sqrt(x), rounded down
RECURSIVE SqrtBits(_, _, _)
SqrtBits(x, r, bit) ==
    IF bit = 0 THEN r
    ELSE IF (r + bit) * (r + bit) <= x THEN SqrtBits(x, r + bit, bit \div 2)
    ELSE SqrtBits(x, r, bit \div 2)
sqrt(x) == SqrtBits(x, 0, 16384)

\* pow(x, 1.0/3.0), rounded up: a positive value stays positive, as a double does
RECURSIVE CbrtBits(_, _, _)
CbrtBits(x, r, bit) ==
    IF bit = 0 THEN r
    ELSE IF (r + bit) * (r + bit) * (r + bit) < x THEN CbrtBits(x, r + bit, bit \div 2)
    ELSE CbrtBits(x, r, bit \div 2)
cbrt(x) == IF x <= 0 THEN 0 ELSE CbrtBits(x, 0, 512) + 1

\* ------------------------------------------------------ program constants
MY_SCHW3 == 1                    \* 3.0 * MY_SCHW: ISCO radius per unit mass
GW_DADT_SEP_CONST == -RATE_SCALE \* GW hardening constant (negative)
KEPLER_CONST_FREQ_SQ == 16777216 \* KEPLER_CONST_FREQ squared
KEPLER_CONST_SEPA_CB == 16777216 \* KEPLER_CONST_SEPA cubed (Kepler: equal to the above)
FOUR_PI_SPLC_OVER_MPC == 1
MY_MPC == 1

\* ------------------------------------------------------------- pure functions
hard_gw(mtot, mrat, sepa) ==
    DDiv(GW_DADT_SEP_CONST * (mtot ^ 3) * mrat * MRAT_ONE,
         (sepa ^ 3) * ((MRAT_ONE + mrat) ^ 2))

kepler_freq_from_sepa(mtot, sepa) ==
    sqrt(DDiv(KEPLER_CONST_FREQ_SQ * mtot, sepa ^ 3))

kepler_sepa_from_freq(mtot, freq) ==
    cbrt(DDiv(KEPLER_CONST_SEPA_CB * mtot + (freq * freq - 1), freq * freq))

RECURSIVE WhileUp(_, _, _, _)
WhileUp(index, size, val, edges) ==
    IF (index < size - 1) /\ (edges[index + 1] < val)
    THEN WhileUp(index + 1, size, val, edges) ELSE index
RECURSIVE WhileDown(_, _, _)
WhileDown(index, val, edges) ==
    IF (index > 0) /\ (edges[index - 1] > val)
    THEN WhileDown(index - 1, val, edges) ELSE index
while_while(start, size, val, edges) ==
    WhileDown(WhileUp(start, size, val, edges), val, edges)

\* -norm * (1+x)^(gi-go) / x^(gi-1) with x = sepa/rchar, for integer slopes
\* gi <= 1 <= go:  x^(1-gi) / (1+x)^(go-gi)
\*              =  sepa^(1-gi) * rchar^(go-1) / (rchar+sepa)^(go-gi)
hard_func_2pwl(norm, sepa, rchar, gamma_inner, gamma_outer) ==
    LET shape == DDiv((sepa ^ (1 - gamma_inner)) * (rchar ^ (gamma_outer - 1)) * RATE_SCALE,
                      (rchar + sepa) ^ (gamma_outer - gamma_inner))
        dadt == DMul(norm, shape)
    IN IF dadt >= INF THEN -INF ELSE -DDiv(dadt, 2 ^ NORM_FRAC)

\* (variant: the gravitational-wave term left out)
hard_func_2pwl_alone(mtot, mrat, sepa, norm, rchar, gamma_inner, gamma_outer) ==
    hard_func_2pwl(norm, sepa, rchar, gamma_inner, gamma_outer)

hard_func_2pwl_gw(mtot, mrat, sepa, norm, rchar, gamma_inner, gamma_outer) ==
    hard_func_2pwl(norm, sepa, rchar, gamma_inner, gamma_outer) + hard_gw(mtot, mrat, sepa)

\* holodeck.cyutils: linear interpolation inside table interval [idx, idx+1]
interp_at_index(idx, xnew, xold, yold) ==
    yold[idx] + DDiv((yold[idx + 1] - yold[idx]) * (xnew - xold[idx]),
                     xold[idx + 1] - xold[idx])

\* holodeck.cyutils: linear interpolation between two points
interp_between_vals(xnew, xl, xr, yl, yr) ==
    yl + DDiv((yr - yl) * (xnew - xl), xr - xl)

\* ------------------------------------------------- cosmology tables (inputs)
\* cosmo._grid_z, cosmo._grid_dcom, cosmo._grid_age: redshift falls and age
\* rises with the index; the last entry is today
redz_interp_grid == Arr(<<64, 32, 16, 8, 0>>)
dcom_interp_grid == Arr(<<40, 30, 20, 10, 0>>)
tage_interp_grid == Arr(<<100, 200, 400, 800, 1600>>)

\* ------------------------------------------------- hardening parameters (inputs)
SepaInitValues == {16}
RcharValues == {4}
GammaInnerValues == {-1}
GammaOuterValues == {2}

\* ------------------------------------------------------- input value sets
MassValues == {1, 4}
RatioValues == {1, 4}
RedzValues == {8, 40}
RedzValuesWide == RedzValues \cup {-8}  \* with a redshift below the table
GmtValues == {0, 1400}
DensValues == {2}
NormValues == {1, 32, 256}
FreqValues == {100, 300, 1000}
Garbage == {-INF, 200, INF}  \* what a read outside an array may return

VARIABLES
    \* Mapper inputs
    target_fobs_orb, hard_norm, hard_rchar, hard_gamma_inner, hard_gamma_outer,
    dens, mtot, mrat, redz, gmt_time, sepa_init, num_steps,
    \* Mapper outputs
    redz_final, diff_num,
    \* Mapper locals
    pc, ii, jj, kk, ss, ff, fidx, interp_left, interp_right,
    mt, mr, norm, dx, sepa_log10, sepa_left, sepa_right, dadt_left, dadt_right,
    frst_orb_left, frst_orb_right, time_evo, dt, time_left, time_right,
    redz_left, redz_right, fobs_orb_left, fobs_orb_right, ftemp, newz, redz_age,
    \* bookkeeping: the call in progress, the order in which it takes the pairs,
    \* the number of pairs begun, the outputs of the previous call, the number
    \* of writes per cell, whether an array was read outside its bounds
    call, order, npair, prev_redz_final, prev_diff_num, nwrites, oob

minputs == <<target_fobs_orb, hard_norm, hard_rchar, hard_gamma_inner, hard_gamma_outer,
             dens, mtot, mrat, redz, gmt_time, sepa_init, num_steps>>
moutputs == <<redz_final, diff_num>>
mlocals == <<pc, ii, jj, kk, ss, ff, fidx, interp_left, interp_right,
             mt, mr, norm, dx, sepa_log10, sepa_left, sepa_right, dadt_left, dadt_right,
             frst_orb_left, frst_orb_right, time_evo, dt, time_left, time_right,
             redz_left, redz_right, fobs_orb_left, fobs_orb_right, ftemp, newz, redz_age>>
mbook == <<call, order, npair, prev_redz_final, prev_diff_num, nwrites, oob>>
mvars == <<minputs, moutputs, mlocals, mbook>>

VARIABLES
    \* Solver inputs: the target time and its number of dimensions, the pairs,
    \* the parameter struct
    time, time_ndim, s_mtot, s_mrat, args,
    \* Solver output
    norm_log10,
    \* Solver locals: position, loop index, the root finder's bracket and count
    s_pc, s_ii, xa, xb, fa, fb, iter

sinputs == <<time, time_ndim, s_mtot, s_mrat>>
svars == <<sinputs, args, norm_log10, s_pc, s_ii, xa, xb, fa, fb, iter>>

vars == <<mvars, svars>>

\* no batch is being solved
SolverIdle ==
    /\ time = 0 /\ time_ndim = 0 /\ s_mtot = <<>> /\ s_mrat = <<>> /\ args = <<>> /\ norm_log10 = <<>>
    /\ s_pc = "idle" /\ s_ii = 0 /\ xa = 0 /\ xb = 0 /\ fa = 0 /\ fb = 0 /\ iter = 0


nf == Size(target_fobs_orb)
nm == Size(mtot)
nq == Size(mrat)
nz == Size(redz)
ninterp == Size(redz_interp_grid)
age_universe == tage_interp_grid[ninterp - 1]
sepa_init_log10 == log10(sepa_init)

Cells == (0..(nm - 1)) \X (0..(nq - 1)) \X (0..(nz - 1)) \X (0..(nf - 1))
Pairs == (0..(nm - 1)) \X (0..(nq - 1))
Triples == (0..(nm - 1)) \X (0..(nq - 1)) \X (0..(nz - 1))

\* the pairs in the order of the nested loops "for ii ... for jj"
RECURSIVE LoopOrder(_, _)
LoopOrder(i, j) ==
    IF i >= nm THEN <<>>
    ELSE IF j >= nq THEN LoopOrder(i + 1, 0)
    ELSE <<(<<i, j>>)>> \o LoopOrder(i, j + 1)

\* ISCO and the log10 step from sepa_init to ISCO
risco(m) == MY_SCHW3 * m
\* (variant: no step at all)
NoStepSize(m, sepa0, nsteps) == 0
StepSize(m, sepa0, nsteps) == DDiv(log10(sepa0) - log10(risco(m)), nsteps)

\* the double arithmetic of the step size is exact for these inputs
ExactSteps(masses, sepa0, nsteps) ==
    \A i \in DOMAIN masses :
        /\ 2 ^ log10(risco(masses[i])) = risco(masses[i])
        /\ 2 ^ log10(sepa0) = sepa0
        /\ risco(masses[i]) < sepa0
        /\ (log10(sepa0) - log10(risco(masses[i]))) % nsteps = 0

\* dynamic_binary_number_at_fobs: the fresh output arrays
NewRedzFinal == [c \in Cells |-> NAN]
\* (variant: a field filled with the sentinel)
SentinelField == [c \in Cells |-> NAN]
NewDiffNum == [c \in Cells |-> 0]

\* the locals before their first assignment
FreshLocals ==
    /\ pc = "age" /\ ii = 0 /\ jj = 0 /\ kk = 0 /\ ss = 0 /\ ff = 0 /\ fidx = 0
    /\ interp_left = 0 /\ interp_right = 0 /\ mt = 0 /\ mr = 0 /\ norm = 0 /\ dx = 0
    /\ sepa_log10 = 0 /\ sepa_left = 0 /\ sepa_right = 0 /\ dadt_left = 0 /\ dadt_right = 0
    /\ frst_orb_left = 0 /\ frst_orb_right = 0 /\ time_evo = 0 /\ dt = 0
    /\ time_left = 0 /\ time_right = 0 /\ redz_left = 0 /\ redz_right = 0
    /\ fobs_orb_left = 0 /\ fobs_orb_right = 0 /\ ftemp = 0 /\ newz = 0
    /\ redz_age = [k \in 0..(nz - 1) |-> 0]

\* the index set of dens and gmt_time when their redshift axis has `extra`
\* entries more than the redshift grid
FieldIndex(extra) == (0..(nm - 1)) \X (0..(nq - 1)) \X (0..(nz - 1 + extra))

\* sam.mtot, sam.mrat, sam.redz, fobs_orb and the hardening parameters
InitGridsOver(redshifts) ==
    /\ \E n \in 1..MaxNM : mtot \in {Arr(s) : s \in AscSeqs(MassValues, n)}
    /\ \E n \in 1..MaxNQ : mrat \in {Arr(s) : s \in AscSeqs(RatioValues, n)}
    /\ nm * nq <= MaxPairs
    /\ \E n \in 1..MaxNZ : redz \in {Arr(s) : s \in AscSeqs(redshifts, n)}
    /\ \E n \in 0..MaxNF : target_fobs_orb \in {Arr(s) : s \in AscSeqs(FreqValues, n)}
    /\ sepa_init \in SepaInitValues
    /\ hard_rchar \in RcharValues
    /\ hard_gamma_inner \in GammaInnerValues
    /\ hard_gamma_outer \in GammaOuterValues
    /\ num_steps \in 1..MaxSteps
    /\ ExactSteps(mtot, sepa_init, num_steps)
    /\ \E n \in NormValues : hard_norm = [p \in Pairs |-> n]

InitGrids == InitGridsOver(RedzValues)

\* sam._gmt_time and sam.static_binary_density
InitFields(extra) ==
    /\ \E g \in [0..(nz - 1 + extra) -> GmtValues] :
           gmt_time = [c \in FieldIndex(extra) |-> g[c[3]]]
    /\ \E d \in DensValues : dens = [c \in FieldIndex(extra) |-> d]

\* the fresh outputs, the locals and the bookkeeping of a first call
InitCall ==
    /\ redz_final = NewRedzFinal
    /\ diff_num = NewDiffNum
    /\ FreshLocals
    /\ call = 1
    /\ order = LoopOrder(0, 0)
    /\ npair = 0
    /\ prev_redz_final = <<>>
    /\ prev_diff_num = <<>>
    /\ nwrites = [c \in Cells |-> 0]
    /\ oob = FALSE
    /\ SolverIdle

Init == InitGrids /\ InitFields(0) /\ InitCall

\* ------------------------------------------------------------ the Mapper
\* a read of target_fobs_orb: outside the array it returns garbage g
TargetRead(idx, g) == IF idx \in DOMAIN target_fobs_orb THEN target_fobs_orb[idx] ELSE g
OutOfRange(idx) == idx \notin DOMAIN target_fobs_orb

\* cursor of the age precomputation:
\*   while (redz_interp_grid[ii+1] > redz[rev]) and (ii < ninterp - 1): ii += 1
\* at ii = ninterp-1 the first operand reads outside the table and the second
\* operand ends the loop whatever was read
RECURSIVE AgeCursor(_, _)
AgeCursor(i, z) ==
    IF i >= ninterp - 1 THEN i
    ELSE IF redz_interp_grid[i + 1] > z THEN AgeCursor(i + 1, z)
    ELSE i

\* (variant: the ages are also stored over the redshift grid)
AgeLoopInPlace ==
    /\ pc = "age"
    /\ LET rev == nz - 1 - kk
           cur == AgeCursor(ii, redz[rev])
           age == interp_at_index(cur, redz[rev], redz_interp_grid, tage_interp_grid)
       IN /\ ii' = cur
          /\ redz_age' = [redz_age EXCEPT ![rev] = age]
          /\ redz' = [redz EXCEPT ![rev] = age]
          /\ kk' = kk + 1
          /\ pc' = IF kk + 1 < nz THEN "age" ELSE "pair"
    /\ UNCHANGED <<jj, ss, ff, fidx, interp_left, interp_right, mt, mr, norm, dx,
                   sepa_log10, sepa_left, sepa_right, dadt_left, dadt_right,
                   frst_orb_left, frst_orb_right, time_evo, dt, time_left, time_right,
                   redz_left, redz_right, fobs_orb_left, fobs_orb_right, ftemp, newz>>
    /\ UNCHANGED <<target_fobs_orb, hard_norm, hard_rchar, hard_gamma_inner,
                   hard_gamma_outer, dens, mtot, mrat, gmt_time, sepa_init, num_steps>>
    /\ UNCHANGED <<svars, moutputs, mbook>>

\* the cursor has reached the last index: the loop condition and
\* interp_at_index read redz_interp_grid[ninterp] and tage_interp_grid[ninterp]
AgeOutOfRange(cur) == cur + 1 \notin DOMAIN redz_interp_grid

\* one iteration of "for kk in range(nz)": the age of the universe at redz[rev]
AgeLoop ==
    /\ pc = "age"
    /\ LET rev == nz - 1 - kk
           cur == AgeCursor(ii, redz[rev])
       IN /\ ii' = cur
          /\ \E g \in Garbage :
                 redz_age' = [redz_age EXCEPT
                     ![rev] = IF AgeOutOfRange(cur) THEN g
                              ELSE interp_at_index(cur, redz[rev], redz_interp_grid,
                                                   tage_interp_grid)]
          /\ oob' = (oob \/ AgeOutOfRange(cur))
          /\ kk' = kk + 1
          /\ pc' = IF kk + 1 < nz THEN "age" ELSE "pair"
    /\ UNCHANGED <<jj, ss, ff, fidx, interp_left, interp_right, mt, mr, norm, dx,
                   sepa_log10, sepa_left, sepa_right, dadt_left, dadt_right,
                   frst_orb_left, frst_orb_right, time_evo, dt, time_left, time_right,
                   redz_left, redz_right, fobs_orb_left, fobs_orb_right, ftemp, newz>>
    /\ UNCHANGED <<svars, minputs, moutputs, call, order, npair, prev_redz_final,
                   prev_diff_num, nwrites>>

\* the values a pair's walk starts from
\* (variants that keep what the previous pair left)
TimeEvoKept == time_evo
FidxKept == fidx
TimeEvoReset == 0
InterpLeftReset == 0
FidxReset == 0

\* the head of the loops over ii and jj, up to the first step
BeginPair ==
    /\ pc = "pair"
    /\ npair < Len(order)
    /\ LET i == order[npair + 1][1]
           j == order[npair + 1][2]
           s0 == pow10(sepa_init_log10, 0)
       IN /\ ii' = i
          /\ jj' = j
          /\ mt' = mtot[i]
          /\ dx' = StepSize(mtot[i], sepa_init, num_steps)
          /\ mr' = mrat[j]
          /\ sepa_log10' = sepa_init_log10
          /\ norm' = hard_norm[<<i, j>>]
          /\ sepa_left' = s0
          /\ dadt_left' = hard_func_2pwl_gw(mtot[i], mrat[j], s0, hard_norm[<<i, j>>],
                                            hard_rchar, hard_gamma_inner, hard_gamma_outer)
          /\ frst_orb_left' = kepler_freq_from_sepa(mtot[i], s0)
    /\ time_evo' = TimeEvoReset
    /\ interp_left' = InterpLeftReset
    /\ fidx' = FidxReset
    /\ ss' = 0
    /\ npair' = npair + 1
    /\ pc' = "step"
    /\ UNCHANGED <<kk, ff, interp_right, sepa_right, dadt_right, frst_orb_right, dt,
                   time_left, time_right, redz_left, redz_right, fobs_orb_left,
                   fobs_orb_right, ftemp, newz, redz_age>>
    /\ UNCHANGED <<svars, minputs, moutputs, call, order, prev_redz_final, prev_diff_num, nwrites, oob>>

\* (variant: half a step)
ShortSepaLog10 == sepa_log10 - dx \div 2

\* the separation after one step
NextSepaLog10 == sepa_log10 - dx

\* (variant: the increment of time from the rate at the left edge alone)
LeftRateDt(sl, sr, dl, dr) == DDiv(RATE_SCALE * (sr - sl), dl)

\* (variant: the two edges exchanged in the difference)
SwappedEdgesDt(sl, sr, dl, dr) == DDiv(2 * RATE_SCALE * (sl - sr), dl + dr)

\* dt = 2.0 * (sepa_right - sepa_left) / (dadt_left + dadt_right)
StepDt(sl, sr, dl, dr) == DDiv(2 * RATE_SCALE * (sr - sl), dl + dr)

\* the head of "for ss in range(num_steps)": advance the separation, add the time
Step ==
    /\ pc = "step"
    /\ LET sr == pow10(NextSepaLog10, 0)
           dr == hard_func_2pwl_gw(mt, mr, sr, norm,
                                   hard_rchar, hard_gamma_inner, hard_gamma_outer)
           d == StepDt(sepa_left, sr, dadt_left, dr)
       IN /\ sepa_log10' = NextSepaLog10
          /\ sepa_right' = sr
          /\ frst_orb_right' = kepler_freq_from_sepa(mt, sr)
          /\ dadt_right' = dr
          /\ dt' = d
          /\ time_evo' = time_evo + d
    /\ kk' = nz - 1
    /\ pc' = IF nz > 0 THEN "redz" ELSE "roll"
    /\ UNCHANGED <<ii, jj, ss, ff, fidx, interp_left, interp_right, mt, mr, norm, dx,
                   sepa_left, dadt_left, frst_orb_left, time_left, time_right,
                   redz_left, redz_right, fobs_orb_left, fobs_orb_right, ftemp, newz,
                   redz_age>>
    /\ UNCHANGED <<svars, minputs, moutputs, mbook>>

\* the body of "for kk in range(nz-1, -1, -1)" up to the edge walk
Gmt == gmt_time[<<ii, jj, kk>>]
\* (variant: the galaxy-merger time left out)
TimeLeftWithoutGmt == (time_evo - dt) + redz_age[kk]
TimeLeft == (time_evo - dt) + Gmt + redz_age[kk]
TimeRight == time_evo + Gmt + redz_age[kk]
\* (variant: the test on the time at the end of the step)
IsStalledAtRight == TimeRight > age_universe
IsStalled == TimeLeft > age_universe
InterpLeft == while_while(interp_left, ninterp, TimeLeft, tage_interp_grid)
InterpRight == while_while(InterpLeft, ninterp, TimeLeft, tage_interp_grid)
RedzLeft == interp_at_index(InterpLeft, TimeLeft, tage_interp_grid, redz_interp_grid)
RedzRight == interp_at_index(InterpRight, TimeRight, tage_interp_grid, redz_interp_grid)
FobsLeft == DDiv(frst_orb_left * REDZ_ONE, REDZ_ONE + RedzLeft)
FobsRight == DDiv(frst_orb_right * REDZ_ONE, REDZ_ONE + RedzRight)

\* (variant: the bin index does not move)
SameBin ==
    /\ kk' = kk
    /\ pc' = "redz"

\* (variant: the loop over the bins is left)
LastBin ==
    /\ kk' = kk
    /\ pc' = "roll"

NextBin ==
    /\ kk' = kk - 1
    /\ pc' = IF kk > 0 THEN "redz" ELSE "roll"

\* "if time_left > age_universe: continue"
Stalled ==
    /\ pc = "redz"
    /\ IsStalled
    /\ time_left' = TimeLeft
    /\ time_right' = TimeRight
    /\ NextBin
    /\ UNCHANGED <<ii, jj, ss, ff, fidx, interp_left, interp_right, mt, mr, norm, dx,
                   sepa_log10, sepa_left, sepa_right, dadt_left, dadt_right,
                   frst_orb_left, frst_orb_right, time_evo, dt,
                   redz_left, redz_right, fobs_orb_left, fobs_orb_right, ftemp, newz,
                   redz_age>>
    /\ UNCHANGED <<svars, minputs, moutputs, mbook>>

Interpolated ==
    /\ time_left' = TimeLeft
    /\ time_right' = TimeRight
    /\ interp_left' = InterpLeft
    /\ interp_right' = InterpRight
    /\ redz_left' = RedzLeft
    /\ redz_right' = RedzRight
    /\ fobs_orb_left' = FobsLeft
    /\ fobs_orb_right' = FobsRight

\* "if fobs_orb_left > target_fobs_orb[nf-1]: break"
FrequencyBreak ==
    /\ pc = "redz"
    /\ ~IsStalled
    /\ Interpolated
    /\ \E g \in Garbage :
           /\ FobsLeft > TargetRead(nf - 1, g)
           /\ oob' = (oob \/ OutOfRange(nf - 1))
    /\ pc' = "roll"
    /\ UNCHANGED <<ii, jj, kk, ss, ff, fidx, mt, mr, norm, dx,
                   sepa_log10, sepa_left, sepa_right, dadt_left, dadt_right,
                   frst_orb_left, frst_orb_right, time_evo, dt, ftemp, newz, redz_age>>
    /\ UNCHANGED <<svars, minputs, moutputs, call, order, npair, prev_redz_final, prev_diff_num, nwrites>>

\* the cursor search, the diagnostic print and the start of the edge walk
Locate ==
    /\ pc = "redz"
    /\ ~IsStalled
    /\ Interpolated
    /\ \E g \in Garbage : ~(FobsLeft > TargetRead(nf - 1, g))
    /\ LET f == while_while(fidx, nf, FobsLeft, target_fobs_orb)
       IN /\ fidx' = f
          /\ ff' = f
          /\ \E g \in Garbage : ftemp' = TargetRead(f, g)
          /\ oob' = (oob \/ OutOfRange(nf - 1) \/ OutOfRange(f) \/ OutOfRange(f + 1))
    /\ pc' = "walk"
    /\ UNCHANGED <<ii, jj, kk, ss, mt, mr, norm, dx,
                   sepa_log10, sepa_left, sepa_right, dadt_left, dadt_right,
                   frst_orb_left, frst_orb_right, time_evo, dt, newz, redz_age>>
    /\ UNCHANGED <<svars, minputs, moutputs, call, order, npair, prev_redz_final, prev_diff_num, nwrites>>

\* "while (fobs_orb_left < ftemp) and (ftemp < fobs_orb_right) and (ff < nf)"
\* (variant: without the bound on ff)
WalkCondUnbounded == (fobs_orb_left < ftemp) /\ (ftemp < fobs_orb_right)
WalkCond == (fobs_orb_left < ftemp) /\ (ftemp < fobs_orb_right) /\ (ff < nf)

NewZ == interp_between_vals(ftemp, fobs_orb_left, fobs_orb_right, redz_left, redz_right)
\* (variant: every redshift that is a number counts)
IsNumber(z) == z # NAN
IsCrossing(z) == z > 0

\* the contribution written to diff_num for a crossing at redshift z
DiffNum(z) ==
    LET target_frst_orb == DDiv(ftemp * (REDZ_ONE + z), REDZ_ONE)
        sepa == kepler_sepa_from_freq(mt, target_frst_orb)
        dadt == hard_func_2pwl_gw(mt, mr, sepa, norm,
                                  hard_rchar, hard_gamma_inner, hard_gamma_outer)
        tres == DDiv(-2 * sepa * RATE_SCALE, 3 * dadt)
        dcom_left == interp_at_index(interp_left, time_left, tage_interp_grid, dcom_interp_grid)
        dcom_right == interp_at_index(interp_right, time_right, tage_interp_grid, dcom_interp_grid)
        dcom == interp_between_vals(ftemp, fobs_orb_left, fobs_orb_right, dcom_left, dcom_right)
        cosmo_fact == DDiv(FOUR_PI_SPLC_OVER_MPC * (REDZ_ONE + z) * dcom * dcom,
                           REDZ_ONE * MY_MPC * MY_MPC)
    IN dens[<<ii, jj, kk>>] * tres * cosmo_fact

\* (variant: a crossing records its redshift and leaves diff_num alone)
EdgeCrossingRedzOnly ==
    /\ pc = "walk"
    /\ WalkCond
    /\ newz' = NewZ
    /\ IF IsCrossing(NewZ)
       THEN /\ redz_final' = [redz_final EXCEPT ![<<ii, jj, kk, ff>>] = NewZ]
            /\ nwrites' = [nwrites EXCEPT ![<<ii, jj, kk, ff>>] = @ + 1]
            /\ UNCHANGED diff_num
       ELSE UNCHANGED <<redz_final, diff_num, nwrites>>
    /\ ff' = ff + 1
    /\ ftemp' = IF ff + 1 < nf THEN target_fobs_orb[ff + 1] ELSE ftemp
    /\ UNCHANGED <<pc, ii, jj, kk, ss, fidx, interp_left, interp_right, mt, mr, norm, dx,
                   sepa_log10, sepa_left, sepa_right, dadt_left, dadt_right,
                   frst_orb_left, frst_orb_right, time_evo, dt, time_left, time_right,
                   redz_left, redz_right, fobs_orb_left, fobs_orb_right, redz_age>>
    /\ UNCHANGED <<svars, minputs, call, order, npair, prev_redz_final, prev_diff_num, oob>>

\* one iteration of the edge walk
EdgeCrossing ==
    /\ pc = "walk"
    /\ WalkCond
    /\ newz' = NewZ
    /\ IF IsCrossing(NewZ)
       THEN /\ redz_final' = [redz_final EXCEPT ![<<ii, jj, kk, ff>>] = NewZ]
            /\ diff_num' = [diff_num EXCEPT ![<<ii, jj, kk, ff>>] = DiffNum(NewZ)]
            /\ nwrites' = [nwrites EXCEPT ![<<ii, jj, kk, ff>>] = @ + 1]
       ELSE UNCHANGED <<redz_final, diff_num, nwrites>>
    /\ ff' = ff + 1
    /\ ftemp' = IF ff + 1 < nf THEN target_fobs_orb[ff + 1] ELSE ftemp
    /\ UNCHANGED <<pc, ii, jj, kk, ss, fidx, interp_left, interp_right, mt, mr, norm, dx,
                   sepa_log10, sepa_left, sepa_right, dadt_left, dadt_right,
                   frst_orb_left, frst_orb_right, time_evo, dt, time_left, time_right,
                   redz_left, redz_right, fobs_orb_left, fobs_orb_right, redz_age>>
    /\ UNCHANGED <<svars, minputs, call, order, npair, prev_redz_final, prev_diff_num, oob>>

\* the edge walk ends; on to the next start-redshift bin
EdgeWalkEnd ==
    /\ pc = "walk"
    /\ ~WalkCond
    /\ NextBin
    /\ UNCHANGED <<ii, jj, ss, ff, fidx, interp_left, interp_right, mt, mr, norm, dx,
                   sepa_log10, sepa_left, sepa_right, dadt_left, dadt_right,
                   frst_orb_left, frst_orb_right, time_evo, dt, time_left, time_right,
                   redz_left, redz_right, fobs_orb_left, fobs_orb_right, ftemp, newz,
                   redz_age>>
    /\ UNCHANGED <<svars, minputs, moutputs, mbook>>

\* "update new left edge", and the end of the loops over ss, jj and ii
Roll ==
    /\ pc = "roll"
    /\ dadt_left' = dadt_right
    /\ sepa_left' = sepa_right
    /\ frst_orb_left' = frst_orb_right
    /\ ss' = ss + 1
    /\ pc' = IF ss + 1 < num_steps THEN "step"
             ELSE IF npair < Len(order) THEN "pair" ELSE "done"
    /\ UNCHANGED <<ii, jj, kk, ff, fidx, interp_left, interp_right, mt, mr, norm, dx,
                   sepa_log10, sepa_right, dadt_right, frst_orb_right, time_evo, dt,
                   time_left, time_right, redz_left, redz_right, fobs_orb_left,
                   fobs_orb_right, ftemp, newz, redz_age>>
    /\ UNCHANGED <<svars, minputs, moutputs, mbook>>

\* all orders in which the pairs can be handed out
Orders == {s \in [1..Cardinality(Pairs) -> Pairs] : \A p \in Pairs : \E n \in DOMAIN s : s[n] = p}

\* dynamic_binary_number_at_fobs is called again on the same inputs, with fresh
\* output arrays; its locals are not initialised (they hold what the previous
\* call left) and its pairs are taken in any order
CallAgain ==
    /\ pc = "done"
    /\ call = 1
    /\ call' = 2
    /\ prev_redz_final' = redz_final
    /\ prev_diff_num' = diff_num
    /\ redz_final' = NewRedzFinal
    /\ diff_num' = NewDiffNum
    /\ nwrites' = [c \in Cells |-> 0]
    /\ order' \in Orders
    /\ npair' = 0
    /\ pc' = "age"
    /\ ii' = 0
    /\ kk' = 0
    /\ UNCHANGED <<jj, ss, ff, fidx, interp_left, interp_right, mt, mr, norm, dx,
                   sepa_log10, sepa_left, sepa_right, dadt_left, dadt_right,
                   frst_orb_left, frst_orb_right, time_evo, dt, time_left, time_right,
                   redz_left, redz_right, fobs_orb_left, fobs_orb_right, ftemp, newz,
                   redz_age>>
    /\ UNCHANGED <<svars, minputs, oob>>

Next ==
    \/ AgeLoop
    \/ BeginPair
    \/ Step
    \/ Stalled
    \/ FrequencyBreak
    \/ Locate
    \/ EdgeCrossing
    \/ EdgeWalkEnd
    \/ Roll

Spec == Init /\ [][Next]_vars

\* the Mapper called twice on the same inputs
NextTwoCalls ==
    \/ Next
    \/ CallAgain

TwoCallSpec == Init /\ [][NextTwoCalls]_vars

\* ------------------------------------------- the Integrator and the Solver
XTOL == 1              \* absolute tolerance: one unit of the norm_log10 grid
RTOL == 0              \* relative tolerance: below the grid's resolution
MITR == 100
NORM_LOG10_LO == -20
NORM_LOG10_HI == 20
TargetTimes == {50, 400, 3000, 50000}

\* the log10 step of the Integrator
IntegratorDx(pars) ==
    DDiv(log10(pars.sepa_init) - log10(MY_SCHW3 * pars.mt), pars.nsteps)

\* the loop "for ii in range(pars.nsteps)" from iteration k on: one record per
\* iteration, with both edges, the increment and the accumulated time
RECURSIVE IntegratorLoop(_, _, _, _, _, _, _)
IntegratorLoop(k, sepa_log, sepa_l, dadt_l, t, nrm, pars) ==
    IF k >= pars.nsteps THEN <<>>
    ELSE LET sl == sepa_log - IntegratorDx(pars)
             sepa_r == pow10(sl, 0)
             dadt_r == hard_func_2pwl_gw(pars.mt, pars.mr, sepa_r, nrm,
                                         pars.rchar, pars.gamma_inner, pars.gamma_outer)
             d == DDiv(2 * RATE_SCALE * (sepa_r - sepa_l), dadt_l + dadt_r)
         IN <<[sepa_left |-> sepa_l, sepa_right |-> sepa_r, dt |-> d, time |-> t + d]>>
            \o IntegratorLoop(k + 1, sl, sepa_r, dadt_r, t + d, nrm, pars)

\* (variant: the argument taken as the amplitude itself)
AmplitudeAsGiven(x) == x

\* norm = pow(10.0, norm_log10)
Amplitude(x) == pow10(x, NORM_FRAC)

IntegratorSteps(x, pars) ==
    LET nrm == Amplitude(x)
        s0 == pow10(log10(pars.sepa_init), 0)
    IN IntegratorLoop(0, log10(pars.sepa_init), s0,
                      hard_func_2pwl_gw(pars.mt, pars.mr, s0, nrm,
                                        pars.rchar, pars.gamma_inner, pars.gamma_outer),
                      0, nrm, pars)

\* _integrate_binary_evolution_2pl: the accumulated time minus the target
integrate_binary_evolution_2pl_resid(x, pars) ==
    LET steps == IntegratorSteps(x, pars)
    IN (IF steps = <<>> THEN 0 ELSE steps[Len(steps)].time) - pars.target_time

\* integrate_binary_evolution_2pl: the accumulated time (target_time = 0.0)
integrate_binary_evolution_2pl(x, m, q, sepa0, rchar, gamma_inner, gamma_outer, nsteps) ==
    integrate_binary_evolution_2pl_resid(x,
        [target_time |-> 0, mt |-> m, mr |-> q, sepa_init |-> sepa0, rchar |-> rchar,
         gamma_inner |-> gamma_inner, gamma_outer |-> gamma_outer, nsteps |-> nsteps])

SameSign(a, b) == (a > 0 /\ b > 0) \/ (a < 0 /\ b < 0)

\* the struct as the loop of _find_2pl_hardening_norm sets it for pair i
\* (variant: the struct keeps the total mass it was given for the first pair)
ArgsKeepingMass(i) == [args EXCEPT !.mt = IF i = 0 THEN s_mtot[i] ELSE args.mt,
                                   !.mr = s_mrat[i]]
ArgsFor(i) == [args EXCEPT !.mt = s_mtot[i], !.mr = s_mrat[i]]

\* (variant: the batch ends with the pair just solved)
SolverLastPair ==
    /\ s_ii' = s_ii + 1
    /\ s_pc' = "done"

SolverNextPair ==
    /\ s_ii' = s_ii + 1
    /\ s_pc' = IF s_ii + 1 < Size(s_mtot) THEN "solve" ELSE "done"

\* "for ii in range(num)": set the pair and enter brentq, which evaluates the
\* residual at both ends of the bracket; without a sign change it returns 0.0
\* (the error flag goes to the NULL full_output)
SolveBegin ==
    /\ s_pc = "solve"
    /\ args' = ArgsFor(s_ii)
    /\ LET flo == integrate_binary_evolution_2pl_resid(NORM_LOG10_LO, ArgsFor(s_ii))
           fhi == integrate_binary_evolution_2pl_resid(NORM_LOG10_HI, ArgsFor(s_ii))
       IN /\ xa' = NORM_LOG10_LO
          /\ xb' = NORM_LOG10_HI
          /\ fa' = flo
          /\ fb' = fhi
          /\ iter' = 0
          /\ IF SameSign(flo, fhi)
             THEN /\ norm_log10' = [norm_log10 EXCEPT ![s_ii] = 0]
                  /\ SolverNextPair
             ELSE IF flo = 0
             THEN /\ norm_log10' = [norm_log10 EXCEPT ![s_ii] = NORM_LOG10_LO]
                  /\ SolverNextPair
             ELSE IF fhi = 0
             THEN /\ norm_log10' = [norm_log10 EXCEPT ![s_ii] = NORM_LOG10_HI]
                  /\ SolverNextPair
             ELSE /\ s_pc' = "brentq"
                  /\ UNCHANGED <<norm_log10, s_ii>>
    /\ UNCHANGED sinputs
    /\ UNCHANGED mvars

BrentqDone == (xb - xa <= XTOL + RTOL * Abs(xb)) \/ (iter >= MITR)

\* the half of the bracket kept after evaluating the midpoint
\* (variant: the other half)
KeepsUpper(fm) == SameSign(fm, fa)
KeepsLower(fm) == SameSign(fm, fb)

\* one iteration of the bracketed root finder
BrentqIterate ==
    /\ s_pc = "brentq"
    /\ ~BrentqDone
    /\ LET xm == (xa + xb) \div 2
           fm == integrate_binary_evolution_2pl_resid(xm, args)
       IN /\ iter' = iter + 1
          /\ IF fm = 0
             THEN /\ xa' = xm /\ xb' = xm /\ fa' = fm /\ fb' = fm
             ELSE IF KeepsLower(fm)
             THEN /\ xb' = xm /\ fb' = fm /\ UNCHANGED <<xa, fa>>
             ELSE /\ xa' = xm /\ fa' = fm /\ UNCHANGED <<xb, fb>>
    /\ UNCHANGED <<sinputs, args, norm_log10, s_pc, s_ii>>
    /\ UNCHANGED mvars

\* brentq returns its current best estimate, converged or not
BrentqReturn ==
    /\ s_pc = "brentq"
    /\ BrentqDone
    /\ norm_log10' = [norm_log10 EXCEPT ![s_ii] = IF Abs(fa) <= Abs(fb) THEN xa ELSE xb]
    /\ SolverNextPair
    /\ UNCHANGED <<sinputs, args, xa, xb, fa, fb, iter>>
    /\ UNCHANGED mvars

MapperIdle ==
    /\ target_fobs_orb = <<>> /\ hard_norm = <<>> /\ hard_rchar = 0
    /\ hard_gamma_inner = 0 /\ hard_gamma_outer = 0 /\ dens = <<>> /\ mtot = <<>>
    /\ mrat = <<>> /\ redz = <<>> /\ gmt_time = <<>> /\ sepa_init = 0 /\ num_steps = 0
    /\ redz_final = <<>> /\ diff_num = <<>>
    /\ pc = "idle" /\ ii = 0 /\ jj = 0 /\ kk = 0 /\ ss = 0 /\ ff = 0 /\ fidx = 0
    /\ interp_left = 0 /\ interp_right = 0 /\ mt = 0 /\ mr = 0 /\ norm = 0 /\ dx = 0
    /\ sepa_log10 = 0 /\ sepa_left = 0 /\ sepa_right = 0 /\ dadt_left = 0 /\ dadt_right = 0
    /\ frst_orb_left = 0 /\ frst_orb_right = 0 /\ time_evo = 0 /\ dt = 0
    /\ time_left = 0 /\ time_right = 0 /\ redz_left = 0 /\ redz_right = 0
    /\ fobs_orb_left = 0 /\ fobs_orb_right = 0 /\ ftemp = 0 /\ newz = 0
    /\ redz_age = <<>>
    /\ call = 0 /\ order = <<>> /\ npair = 0 /\ prev_redz_final = <<>>
    /\ prev_diff_num = <<>> /\ nwrites = <<>> /\ oob = FALSE

\* find_2pl_hardening_norm: the checks, the output array and the struct
SolverInit ==
    /\ time \in TargetTimes
    /\ time_ndim = 0
    /\ \E n \in 1..MaxPairs :
           /\ s_mtot \in [0..(n - 1) -> MassValues]
           /\ s_mrat \in [0..(n - 1) -> RatioValues]
           /\ norm_log10 = [i \in 0..(n - 1) |-> 0]
    /\ \E s0 \in SepaInitValues, rc \in RcharValues, gi \in GammaInnerValues,
          go \in GammaOuterValues, ns \in 1..MaxSteps :
           /\ ExactSteps(s_mtot, s0, ns)
           /\ args = [target_time |-> time, mt |-> 0, mr |-> 0, sepa_init |-> s0,
                      rchar |-> rc, gamma_inner |-> gi, gamma_outer |-> go, nsteps |-> ns]
    /\ s_pc = "solve" /\ s_ii = 0 /\ xa = 0 /\ xb = 0 /\ fa = 0 /\ fb = 0 /\ iter = 0
    /\ MapperIdle

SolverNext ==
    \/ SolveBegin
    \/ BrentqIterate
    \/ BrentqReturn

SolverSpec == SolverInit /\ [][SolverNext]_vars

\* ---------------------------------------------------------------- claims
\* the time to ISCO of pair i of the batch when norm = 10^x
TimeToIsco(i, x) ==
    integrate_binary_evolution_2pl(x, s_mtot[i], s_mrat[i], args.sepa_init, args.rchar,
                                   args.gamma_inner, args.gamma_outer, args.nsteps)

\* the target time of the batch is reachable for pair i inside the bracket
Bracketed(i) ==
    /\ TimeToIsco(i, NORM_LOG10_LO) >= time
    /\ TimeToIsco(i, NORM_LOG10_HI) <= time

RootTol(x) == XTOL + RTOL * Abs(x)

C3_WrittenAtMostOnce ==
    \A c \in DOMAIN nwrites : nwrites[c] <= 1

\* a cell of a grid of several edges has been written twice
C3_Witness ==
    /\ nf >= 2
    /\ \E c \in DOMAIN nwrites : nwrites[c] >= 2

\* the redshift the walk would interpolate for edge e in the current bin
NewZAt(e) ==
    interp_between_vals(target_fobs_orb[e], fobs_orb_left, fobs_orb_right, redz_left, redz_right)

\* C4: when the edge walk of a bin ends, every target edge strictly between
\* fobs_orb_left and fobs_orb_right has been visited by the walk, and the cell
\* of each such edge with a positive interpolated redshift has been written.
C4_AllEdgesBetweenVisited ==
    (pc = "walk" /\ ~WalkCond) =>
        \A e \in DOMAIN target_fobs_orb :
            (fobs_orb_left < target_fobs_orb[e] /\ target_fobs_orb[e] < fobs_orb_right) =>
                /\ e \in fidx..(ff - 1)
                /\ NewZAt(e) > 0 => nwrites[<<ii, jj, kk, e>>] >= 1

\* the walk of a bin has ended without visiting an edge between its frequencies
C4_Witness ==
    /\ pc = "walk" /\ ~WalkCond /\ nf >= 2
    /\ \E e \in DOMAIN target_fobs_orb :
           /\ fobs_orb_left < target_fobs_orb[e] /\ target_fobs_orb[e] < fobs_orb_right
           /\ e \notin fidx..(ff - 1)
           /\ NewZAt(e) > 0

\* C5 as stated: with no edge or a single edge nothing is ever recorded.
C5_NothingRecorded ==
    nf <= 1 => \A c \in DOMAIN nwrites : nwrites[c] = 0 /\ redz_final[c] = NAN

\* C5: with no edge the body of the edge walk never runs; with a single edge,
\* a bin whose walk ran with a positive interpolated redshift has that
\* redshift recorded in the cell of the edge.
C5_EmptyOrSingleEdge ==
    /\ nf = 0 => ~(pc = "walk" /\ WalkCond)
    /\ (nf = 1 /\ pc = "walk" /\ ff > fidx /\ newz > 0) =>
           /\ redz_final[<<ii, jj, kk, 0>>] = newz
           /\ nwrites[<<ii, jj, kk, 0>>] >= 1

\* a single edge has been crossed and recorded
C5_Witness ==
    /\ nf = 1 /\ pc = "walk" /\ ff = 1 /\ newz > 0
    /\ redz_final[<<ii, jj, kk, 0>>] = newz

\* C6: a (mass, ratio, redshift) bin whose galaxy-merger time plus age at the
\* start redshift exceeds the present age is never written, at any edge.
C6_LateBinaryNeverWritten ==
    pc \notin {"idle", "age"} =>
        \A c \in Cells :
            gmt_time[<<c[1], c[2], c[3]>>] + redz_age[c[3]] > age_universe =>
                nwrites[c] = 0 /\ redz_final[c] = NAN /\ diff_num[c] = 0

\* a finished run with such a bin, next to a bin that was written
C6_Witness ==
    /\ pc = "done"
    /\ \E c \in Cells : gmt_time[<<c[1], c[2], c[3]>>] + redz_age[c[3]] > age_universe
    /\ \E c \in Cells : nwrites[c] > 0

\* C7 as stated: a bin that reaches the edge walk has a total time through the
\* current step (time_right) within the present age.
C7_SkippedOnTimeThroughStep ==
    pc = "walk" => time_right <= age_universe

\* C7: the test is on the total time at the start of the step: a bin with
\* time_left beyond the present age is skipped (no redshift interpolated, no
\* output written, no edge walk), and a bin with time_left within it has its
\* redshifts interpolated.
C7_SkippedOnTimeAtStepStart ==
    [][(pc = "redz") =>
          IF TimeLeft > age_universe
          THEN /\ UNCHANGED <<redz_left, redz_right, fobs_orb_left, fobs_orb_right,
                              redz_final, diff_num, nwrites>>
               /\ pc' # "walk"
          ELSE /\ redz_left' = RedzLeft
               /\ redz_right' = RedzRight
               /\ time_left' <= age_universe]_vars

\* a bin has just been skipped after an earlier bin was written
C7_Witness ==
    /\ time_left > age_universe
    /\ pc \in {"redz", "roll"}
    /\ \E c \in Cells : nwrites[c] > 0

\* the norm_log10 values at which the Integrator is run for the Mapper's pairs
NormLog10Probes == {NORM_LOG10_LO, -2, 0, 3, NORM_LOG10_HI}

\* the Integrator's steps for the Mapper's pair (i, j)
PairSteps(i, j, x) ==
    IntegratorSteps(x, [target_time |-> 0, mt |-> mtot[i], mr |-> mrat[j],
                        sepa_init |-> sepa_init, rchar |-> hard_rchar,
                        gamma_inner |-> hard_gamma_inner,
                        gamma_outer |-> hard_gamma_outer, nsteps |-> num_steps])

\* C8: at every step of the Mapper the right edge has a strictly smaller
\* separation and a strictly larger rest-frame frequency than the left edge,
\* and the same holds for every step of the Integrator on the same pair, each
\* step starting where the previous one ended.
C8_Monotone ==
    /\ pc \in {"redz", "walk", "roll"} =>
           /\ sepa_right < sepa_left
           /\ frst_orb_right > frst_orb_left
    /\ pc = "step" =>
           \A x \in NormLog10Probes :
               LET st == PairSteps(ii, jj, x)
               IN /\ Len(st) = num_steps
                  /\ \A k \in DOMAIN st :
                         /\ st[k].sepa_right < st[k].sepa_left
                         /\ kepler_freq_from_sepa(mt, st[k].sepa_right)
                                > kepler_freq_from_sepa(mt, st[k].sepa_left)
                         /\ k > 1 => st[k].sepa_left = st[k - 1].sepa_right

\* the last step of a walk of more than one step
C8_Witness ==
    /\ pc = "roll" /\ ss = num_steps - 1 /\ ss > 0
    /\ sepa_right < sepa_left
    /\ sepa_right = risco(mt)

\* C9: a second call on the same inputs, taking the pairs in the same order,
\* ends with the output fields of the first call.
C9_Idempotent ==
    (call = 2 /\ pc = "done" /\ order = LoopOrder(0, 0)) =>
        /\ redz_final = prev_redz_final
        /\ diff_num = prev_diff_num

\* the second call has ended, after writing cells
C9_Witness ==
    /\ call = 2 /\ pc = "done" /\ order = LoopOrder(0, 0)
    /\ \E c \in Cells : nwrites[c] > 0
    /\ Cardinality(Pairs) > 1

RunInit == Init \/ SolverInit
RunNext == Next \/ SolverNext
RunSpec == RunInit /\ [][RunNext]_vars

\* the largest number of actions a start-redshift bin, a step and a pair of
\* the Mapper, and a pair of the Solver, can take
BinCost == nf + 2
StepCost == nz * BinCost + 2
PairCost == num_steps * StepCost + 1
SolveCost == MITR + 2

\* the number of actions the run can still take, at most
Remaining ==
    CASE pc = "age" -> (nz - kk) + nm * nq * PairCost
      [] pc = "pair" -> (nm * nq - npair) * PairCost
      [] pc = "step" -> (nm * nq - npair) * PairCost + (num_steps - ss) * StepCost
      [] pc = "redz" -> (nm * nq - npair) * PairCost + (num_steps - ss - 1) * StepCost
                            + 1 + (kk + 1) * BinCost
      [] pc = "walk" -> (nm * nq - npair) * PairCost + (num_steps - ss - 1) * StepCost
                            + 1 + kk * BinCost + (nf - ff) + 1
      [] pc = "roll" -> (nm * nq - npair) * PairCost + (num_steps - ss - 1) * StepCost + 1
      [] s_pc = "solve" -> (Size(s_mtot) - s_ii) * SolveCost
      [] s_pc = "brentq" -> (Size(s_mtot) - s_ii - 1) * SolveCost + (MITR - iter) + 1
      [] OTHER -> 0

\* the run has a next statement to execute
CanStep ==
    \/ pc \in {"age", "step", "roll"}
    \/ pc = "pair" /\ npair < Len(order)
    \/ pc = "redz" /\ kk \in 0..(nz - 1)
    \/ pc = "walk" /\ kk \in 0..(nz - 1)
    \/ s_pc = "solve" /\ s_ii < Size(s_mtot)
    \/ s_pc = "brentq"

\* C11: every run of the Solver and of the Mapper ends: each cursor search,
\* loop iteration and root-finder iteration lowers the number of actions the
\* run can still take, a number that starts from a bound given by the grid
\* sizes, the step count and the maximum iteration count, never falls below
\* zero, and is zero exactly when the run has ended; until then the run always
\* has a next statement.
C11_Terminates ==
    /\ [][Remaining' < Remaining]_vars
    /\ [](/\ Remaining >= 0
          /\ Remaining <= nz + nm * nq * PairCost + Size(s_mtot) * SolveCost
          /\ (Remaining = 0) <=> (pc = "done" \/ s_pc = "done")
          /\ (Remaining > 0) => CanStep)

\* a Mapper run has ended after several steps, a stalled bin and a recorded edge
C11_Witness ==
    /\ pc = "done" /\ ss = num_steps /\ num_steps > 1
    /\ time_left > age_universe
    /\ \E c \in Cells : nwrites[c] > 0

\* ------------------------------------------------- calls with any shapes
\* find_2pl_hardening_norm is called with arrays of any lengths and a target
\* time of any number of dimensions
ConfigSolverInit ==
    /\ time \in TargetTimes
    /\ time_ndim \in {0, 1}
    /\ \E n \in 1..MaxPairs, m \in 1..MaxPairs :
           /\ s_mtot \in [0..(n - 1) -> MassValues]
           /\ s_mrat \in [0..(m - 1) -> RatioValues]
    /\ norm_log10 = <<>>
    /\ \E s0 \in SepaInitValues, rc \in RcharValues, gi \in GammaInnerValues,
          go \in GammaOuterValues, ns \in 1..MaxSteps :
           /\ ExactSteps(s_mtot, s0, ns)
           /\ args = [target_time |-> time, mt |-> 0, mr |-> 0, sepa_init |-> s0,
                      rchar |-> rc, gamma_inner |-> gi, gamma_outer |-> go, nsteps |-> ns]
    /\ s_pc = "setup" /\ s_ii = 0 /\ xa = 0 /\ xb = 0 /\ fa = 0 /\ fb = 0 /\ iter = 0
    /\ MapperIdle

\* the three assertions of find_2pl_hardening_norm
SolverShapesOk ==
    /\ time_ndim = 0
    /\ Size(s_mtot) = Size(s_mrat)

\* find_2pl_hardening_norm up to the call of _find_2pl_hardening_norm: a failed
\* assertion raises before the output array exists
SolverSetup ==
    /\ s_pc = "setup"
    /\ IF SolverShapesOk
       THEN /\ norm_log10' = [i \in DOMAIN s_mtot |-> 0]
            /\ s_pc' = "solve"
       ELSE /\ s_pc' = "error"
            /\ UNCHANGED norm_log10
    /\ UNCHANGED <<sinputs, args, s_ii, xa, xb, fa, fb, iter>>
    /\ UNCHANGED mvars

\* dynamic_binary_number_at_fobs is called with density and GMT fields whose
\* redshift axis may be longer than the redshift grid
ConfigMapperInit ==
    /\ InitGrids
    /\ \E e \in 0..MaxExtra : InitFields(e)
    /\ InitCall

ConfigInit == ConfigMapperInit \/ ConfigSolverInit
ConfigNext ==
    \/ Next
    \/ SolverSetup
    \/ SolverNext
ConfigSpec == ConfigInit /\ [][ConfigNext]_vars

\* the shapes of the inputs of the call do not fit together
ConfigError ==
    \/ pc # "idle" /\ (DOMAIN dens # Triples \/ DOMAIN gmt_time # Triples)
    \/ s_pc # "idle" /\ ~SolverShapesOk

\* C12: a call whose input shapes do not fit together never gets past its
\* setup: no pair is solved, no trajectory of a pair is begun, and no output
\* exists.
C12_ConfigErrorAborts ==
    ConfigError =>
        /\ pc \in {"idle", "age"} \/ (pc = "pair" /\ npair = 0)
        /\ s_pc \in {"idle", "setup", "error"} /\ norm_log10 = <<>>

\* a Mapper call with density and GMT fields longer than the redshift grid has
\* run to its end and returned written fields
C12_Witness ==
    /\ DOMAIN dens # Triples /\ DOMAIN gmt_time # Triples
    /\ pc = "done"
    /\ \E c \in Cells : nwrites[c] > 0

\* ------------------------------------------- a value for every pair (C13)
\* what a statement of the Solver may do to the batch
SolveStep ==
    s_pc \in {"solve", "brentq"} =>
        /\ s_pc' \in {"solve", "brentq", "done"}
        /\ s_ii' \in {s_ii, s_ii + 1}
        /\ (s_ii' = s_ii) => (norm_log10' = norm_log10 /\ s_pc' = "brentq")
        /\ (s_ii' = s_ii + 1) =>
               /\ norm_log10'[s_ii] \in NORM_LOG10_LO..NORM_LOG10_HI
               /\ \A i \in DOMAIN norm_log10 \ {s_ii} : norm_log10'[i] = norm_log10[i]
               /\ s_pc' = IF s_ii' = Size(s_mtot) THEN "done" ELSE "solve"

\* C13: once the solves have begun no error arises; every statement of the
\* Solver either stays with the current pair or stores an ordinary number of
\* the bracket for it, leaves the values of the other pairs alone and goes on
\* to the next pair, whether or not a root was found; the batch ends only
\* when every pair has its value.
C13_ValueForEveryPair ==
    /\ [][SolveStep]_vars
    /\ [](s_pc = "done" => s_ii = Size(s_mtot) /\ DOMAIN norm_log10 = DOMAIN s_mtot)

\* a finished batch whose first pair has no root in the bracket and whose
\* second pair was solved by iterating all the same
C13_Witness ==
    /\ s_pc = "done"
    /\ Size(s_mtot) = 2
    /\ ~Bracketed(0)
    /\ norm_log10[0] = 0
    /\ TimeToIsco(1, NORM_LOG10_LO) > time
    /\ TimeToIsco(1, NORM_LOG10_HI) < time
    /\ iter > 1

\* ------------------------------------- the Mapper's walk and the Integrator
\* the norm_log10 whose amplitude pow(10.0, norm_log10) is n
AmplitudeLog10(n) == log10(n) - NORM_FRAC

\* C14: inside step ss of a pair the Mapper's left and right separations are
\* those of step ss of the Integrator run on the same mass, ratio, initial
\* separation and number of steps, whatever the amplitude; the walk has
\* num_steps steps and ends at the ISCO; and with the same amplitude the
\* Mapper's dt and accumulated time are the Integrator's, both following
\* dt = 2 (sepa_right - sepa_left) / (dadt_left + dadt_right).
C14_SameWalk ==
    pc \in {"redz", "walk", "roll"} =>
        /\ \A x \in NormLog10Probes \cup {AmplitudeLog10(norm)} :
               LET st == PairSteps(ii, jj, x)
               IN /\ Len(st) = num_steps
                  /\ st[ss + 1].sepa_left = sepa_left
                  /\ st[ss + 1].sepa_right = sepa_right
                  /\ st[num_steps].sepa_right = risco(mt)
                  /\ pow10(x, NORM_FRAC) = norm =>
                         /\ st[ss + 1].dt = dt
                         /\ st[ss + 1].time = time_evo
        /\ pow10(AmplitudeLog10(norm), NORM_FRAC) = norm
        /\ dt * (dadt_left + dadt_right) >= 2 * RATE_SCALE * (sepa_right - sepa_left)
        /\ (dt + 1) * (dadt_left + dadt_right) < 2 * RATE_SCALE * (sepa_right - sepa_left)

\* the last step of a walk of more than one step, with time added in every
\* step so far
C14_Witness ==
    /\ pc = "roll" /\ ss = num_steps - 1 /\ ss > 0
    /\ dt > 0 /\ time_evo > dt
    /\ PairSteps(ii, jj, AmplitudeLog10(norm))[num_steps].time = time_evo
    /\ sepa_right = risco(mt)

\* ------------------------------------------- the amplitude of the Mapper
\* the Integrator's time for the Mapper's current pair at norm_log10 = x
PairTime(x) ==
    integrate_binary_evolution_2pl(x, mt, mr, sepa_init, hard_rchar,
                                   hard_gamma_inner, hard_gamma_outer, num_steps)

\* x is a value the Solver returns for the current pair and target time T: a
\* root within the root tolerance
SolverReturns(x, T) ==
    /\ x \in NORM_LOG10_LO..NORM_LOG10_HI
    /\ PairTime(NORM_LOG10_LO) >= T
    /\ PairTime(NORM_LOG10_HI) <= T
    /\ PairTime(x - RootTol(x)) >= T
    /\ PairTime(x + RootTol(x)) <= T

\* the last step of the current pair has been added to time_evo
WalkEnded == pc = "roll" /\ ss = num_steps - 1

RateIsNegativeSum(r, sepa, nrm) ==
    /\ r < 0
    /\ hard_gw(mt, mr, sepa) < 0
    /\ hard_func_2pwl(nrm, sepa, hard_rchar, hard_gamma_inner, hard_gamma_outer) <= 0
    /\ r = hard_gw(mt, mr, sepa)
           + hard_func_2pwl(nrm, sepa, hard_rchar, hard_gamma_inner, hard_gamma_outer)

\* C16: the rates the Mapper holds for the two edges of a step are strictly
\* negative and are the sum of the gravitational-wave term and the double
\* power-law term at the edge; the same holds for the rate the Integrator
\* computes at these separations for every norm_log10 of the bracket.
C16_RateNegativeSum ==
    /\ pc \in {"step", "redz", "walk", "roll"} =>
           RateIsNegativeSum(dadt_left, sepa_left, norm)
    /\ pc \in {"redz", "walk", "roll"} =>
           /\ RateIsNegativeSum(dadt_right, sepa_right, norm)
           /\ \A x \in NORM_LOG10_LO..NORM_LOG10_HI, sepa \in {sepa_left, sepa_right} :
                  RateIsNegativeSum(
                      hard_func_2pwl_gw(mt, mr, sepa, Amplitude(x), hard_rchar,
                                        hard_gamma_inner, hard_gamma_outer),
                      sepa, Amplitude(x))

\* a step whose right-edge rate has a gravitational-wave part and a power-law
\* part, both negative
C16_Witness ==
    /\ pc = "roll"
    /\ hard_gw(mt, mr, sepa_right) < 0
    /\ hard_func_2pwl(norm, sepa_right, hard_rchar, hard_gamma_inner, hard_gamma_outer) < 0
    /\ dadt_right < hard_gw(mt, mr, sepa_right)
    /\ dadt_right < dadt_left

\* ------------------------------------------------------- positive times
\* dt is the quotient, cut to the resolution of the time unit, of a negative
\* difference of separations and a negative sum of rates
PositiveQuotient(d, sl, sr, dl, dr) ==
    /\ sr - sl < 0
    /\ dl + dr < 0
    /\ d >= 0
    /\ d = StepDt(sl, sr, dl, dr)
    /\ (2 * RATE_SCALE * (sl - sr) >= -(dl + dr)) => d > 0

\* the rate of the Integrator at separation sepa for norm_log10 = x
IntegratorRate(x, sepa) ==
    hard_func_2pwl_gw(mt, mr, sepa, Amplitude(x), hard_rchar,
                      hard_gamma_inner, hard_gamma_outer)

\* the steps of the Integrator on the current pair for norm_log10 = x
IntegratorTimesRise(x) ==
    LET st == PairSteps(ii, jj, x)
    IN /\ \A k \in DOMAIN st :
              /\ PositiveQuotient(st[k].dt, st[k].sepa_left, st[k].sepa_right,
                                  IntegratorRate(x, st[k].sepa_left),
                                  IntegratorRate(x, st[k].sepa_right))
              /\ st[k].time = (IF k = 1 THEN 0 ELSE st[k - 1].time) + st[k].dt
              /\ st[k].time >= (IF k = 1 THEN 0 ELSE st[k - 1].time)
       /\ PairTime(x) = st[Len(st)].time
       /\ PairTime(x) >= 0
       /\ (\E k \in DOMAIN st : st[k].dt > 0) => PairTime(x) > 0

\* the Mapper's time_evo between two statements
TimeEvoRises ==
    \/ pc' = "step" /\ pc = "pair" /\ time_evo' = 0
    \/ pc = "done" \/ pc = "idle"
    \/ time_evo' >= time_evo

\* C17: in every step of the Mapper dt is strictly positive, being the ratio
\* of two negative numbers, and time_evo never falls while a pair is walked;
\* in every step of the Integrator, for every norm_log10 of the bracket, dt
\* is the ratio of two negative numbers (strictly positive wherever it is not
\* below the resolution of the time unit), the accumulated time never falls,
\* and the total is positive.
C17_TimesPositive ==
    /\ [](pc \in {"redz", "walk", "roll"} =>
             /\ PositiveQuotient(dt, sepa_left, sepa_right, dadt_left, dadt_right)
             /\ dt > 0
             /\ time_evo >= dt
             /\ \A x \in NormLog10Probes \cup {AmplitudeLog10(norm)} :
                    IntegratorTimesRise(x)
             /\ PairTime(AmplitudeLog10(norm)) > 0)
    /\ [][TimeEvoRises]_vars

\* the second step of a walk has added a positive dt to a positive time_evo,
\* and the Integrator's total for the same amplitude is positive
C17_Witness ==
    /\ WalkEnded
    /\ ss > 0
    /\ dt > 0
    /\ time_evo - dt > 0
    /\ PairTime(AmplitudeLog10(norm)) = time_evo
    /\ \E x \in NormLog10Probes : PairTime(x) > time_evo

\* ------------------------------------------------- discarded crossings
\* the edge walk is at a target edge whose interpolated redshift is not positive
AtDiscardedEdge == pc = "walk" /\ WalkCond /\ ~(NewZ > 0)

\* the fields keep their values and the walk moves to the next target edge
DiscardStep ==
    AtDiscardedEdge =>
        /\ redz_final' = redz_final
        /\ diff_num' = diff_num
        /\ ff' = ff + 1
        /\ pc' = "walk"
        /\ ftemp' = IF ff + 1 < nf THEN target_fobs_orb[ff + 1] ELSE ftemp

\* C18: a target edge whose interpolated redshift is zero, negative or NaN
\* leaves redz_final and diff_num as they are and the walk goes on with the
\* next edge; every value of redz_final other than NaN is strictly positive.
C18_NonPositiveDiscarded ==
    /\ [][DiscardStep]_vars
    /\ [](pc # "idle" => \A c \in Cells : redz_final[c] # NAN => redz_final[c] > 0)

\* the walk has just passed an edge whose redshift was not positive; its cell
\* is unwritten, and another cell of the fields has been written
C18_Witness ==
    /\ pc = "walk"
    /\ ff > fidx
    /\ newz <= 0
    /\ newz = interp_between_vals(target_fobs_orb[ff - 1], fobs_orb_left, fobs_orb_right,
                                  redz_left, redz_right)
    /\ fobs_orb_left < target_fobs_orb[ff - 1]
    /\ target_fobs_orb[ff - 1] < fobs_orb_right
    /\ redz_final[<<ii, jj, kk, ff - 1>>] = NAN
    /\ \E c \in Cells : redz_final[c] > 0

\* ------------------------------------------------------- stalled bins
\* bin k of the current pair is stalled at the current step
StalledAt(k) == (time_evo - dt) + gmt_time[<<ii, jj, k>>] + redz_age[k] > age_universe

\* what the Mapper does at a stalled bin: nothing is written, the step and its
\* separations, rates, time and frequency cursor stay, and the next lower bin
\* of the same step follows, or after bin 0 the end of the step
StalledStep ==
    (pc = "redz" /\ IsStalled) =>
        /\ StalledAt(kk)
        /\ ss' = ss /\ ii' = ii /\ jj' = jj
        /\ kk > 0 => (pc' = "redz" /\ kk' = kk - 1)
        /\ kk = 0 => pc' = "roll"
        /\ UNCHANGED <<moutputs, time_evo, dt, fidx, sepa_left, sepa_right, dadt_left,
                       dadt_right, frst_orb_left, frst_orb_right>>

\* the end of a step: the next step follows while there is one, and it starts
\* at the highest bin
StepFollows ==
    /\ (pc = "roll" /\ ss + 1 < num_steps) => (pc' = "step" /\ ss' = ss + 1)
    /\ (pc = "step" /\ nz > 0) => (pc' = "redz" /\ kk' = nz - 1 /\ ss' = ss)

\* C19: a stalled bin skips only itself: the Mapper goes on with the next
\* lower bin of the same step, down to bin 0, and then with the next step,
\* which again starts at the highest bin.
C19_StallSkipsOneBin == [][StalledStep /\ StepFollows]_vars

\* a crossing has just been written for a bin of a step in which a higher
\* bin is stalled
C19_Witness ==
    /\ pc = "walk"
    /\ ff > fidx
    /\ newz > 0
    /\ redz_final[<<ii, jj, kk, ff - 1>>] = newz
    /\ \E k \in (kk + 1)..(nz - 1) : StalledAt(k)

\* ------------------------------------------------- the frequency break
\* the loop over the bins of the current step was left by the break at bin kk
\* (after the last bin kk is -1)
BrokeAtBin == pc = "roll" /\ kk >= 0 /\ nf > 0

\* what the body of the loop computes for bin k of the current step
TimeLeftAt(k) == (time_evo - dt) + gmt_time[<<ii, jj, k>>] + redz_age[k]
TimeRightAt(k) == time_evo + gmt_time[<<ii, jj, k>>] + redz_age[k]
InterpAt(k) == while_while(interp_left, ninterp, TimeLeftAt(k), tage_interp_grid)
RedzLeftAt(k) == interp_at_index(InterpAt(k), TimeLeftAt(k), tage_interp_grid, redz_interp_grid)
RedzRightAt(k) == interp_at_index(InterpAt(k), TimeRightAt(k), tage_interp_grid, redz_interp_grid)
FobsLeftAt(k) == DDiv(frst_orb_left * REDZ_ONE, REDZ_ONE + RedzLeftAt(k))
FobsRightAt(k) == DDiv(frst_orb_right * REDZ_ONE, REDZ_ONE + RedzRightAt(k))

\* bin k would pass the stall test and the break test, and its edge walk,
\* starting at the cursor, would write a crossing
WouldRecord(k) ==
    /\ ~StalledAt(k)
    /\ ~(FobsLeftAt(k) > target_fobs_orb[nf - 1])
    /\ LET f == while_while(fidx, nf, FobsLeftAt(k), target_fobs_orb)
       IN /\ FobsLeftAt(k) < target_fobs_orb[f]
          /\ target_fobs_orb[f] < FobsRightAt(k)
          /\ interp_between_vals(target_fobs_orb[f], FobsLeftAt(k), FobsRightAt(k),
                                 RedzLeftAt(k), RedzRightAt(k)) > 0

\* C20: when the loop over the bins is left by the break at bin kk, every
\* lower bin of the step is stalled or has its fobs_orb_left above the highest
\* target edge, so none of them would have written a crossing.
C20_BreakLosesNothing ==
    BrokeAtBin =>
        \A k \in 0..(kk - 1) :
            /\ StalledAt(k) \/ FobsLeftAt(k) > target_fobs_orb[nf - 1]
            /\ ~WouldRecord(k)

\* the loop was left by the break at a bin with a long galaxy-merger time, and
\* a lower bin with a short one would have written a crossing
C20_Witness ==
    /\ BrokeAtBin
    /\ fobs_orb_left > target_fobs_orb[nf - 1]
    /\ \E k \in 0..(kk - 1) :
           /\ gmt_time[<<ii, jj, k>>] < gmt_time[<<ii, jj, kk>>]
           /\ WouldRecord(k)
           /\ redz_final[<<ii, jj, k, while_while(fidx, nf, FobsLeftAt(k), target_fobs_orb)>>] = NAN

\* ------------------------------------------- the table interval of each edge
\* table interval idx of the age table contains time t
Brackets(idx, t) ==
    /\ idx \in 0..(ninterp - 2)
    /\ tage_interp_grid[idx] <= t
    /\ t <= tage_interp_grid[idx + 1]

\* C21: for every bin that is neither stalled nor left by the break, the
\* cursor of the left edge brackets time_left in the age table and the cursor
\* of the right edge brackets time_right, so that redz_left and redz_right are
\* interpolated inside the interval of their own time.
C21_EdgesInterpolatedInOwnInterval ==
    pc = "walk" =>
        /\ Brackets(interp_left, time_left)
        /\ Brackets(interp_right, time_right)

\* the right edge of a step lies inside the table, in a later interval than
\* the one its cursor points to, and its redshift differs from the one
\* interpolated in its own interval
C21_Witness ==
    /\ pc = "walk"
    /\ Brackets(interp_left, time_left)
    /\ time_right <= age_universe
    /\ time_right > tage_interp_grid[interp_right + 1]
    /\ \E idx \in 0..(ninterp - 2) :
           /\ Brackets(idx, time_right)
           /\ redz_right # interp_at_index(idx, time_right, tage_interp_grid, redz_interp_grid)

\* ------------------------------------------- from sepa_init to the ISCO
\* the steps of the Integrator on the current pair for norm_log10 = x: as many
\* as num_steps, equal in log10, from sepa_init down to the ISCO and never
\* below it
IntegratorReachesIsco(x) ==
    LET st == PairSteps(ii, jj, x)
    IN /\ Len(st) = num_steps
       /\ st[1].sepa_left = sepa_init
       /\ st[num_steps].sepa_right = risco(mt)
       /\ \A k \in DOMAIN st :
              /\ st[k].sepa_right >= risco(mt)
              /\ log10(st[k].sepa_left) - log10(st[k].sepa_right)
                     = StepSize(mt, sepa_init, num_steps)
              /\ log10(st[k].sepa_right) = sepa_init_log10 - k * StepSize(mt, sepa_init, num_steps)

\* C22: the walk of a pair starts at sepa_init; inside step ss the right edge
\* is ss + 1 equal log10 steps below sepa_init and not below the ISCO; the
\* last step, number num_steps - 1, ends at the ISCO 3 MY_SCHW mtot, and the
\* loop has then run num_steps times; the Integrator does the same.
C22_ReachesIscoInNsteps ==
    /\ [](/\ (pc = "step" /\ ss = 0) => (sepa_left = sepa_init /\ sepa_log10 = sepa_init_log10)
          /\ pc \in {"step", "redz", "walk", "roll"} => ss \in 0..(num_steps - 1)
          /\ pc \in {"redz", "walk", "roll"} =>
                 /\ dx = StepSize(mt, sepa_init, num_steps)
                 /\ log10(sepa_left) - log10(sepa_right) = dx
                 /\ sepa_log10 = sepa_init_log10 - (ss + 1) * dx
                 /\ sepa_right = 2 ^ sepa_log10
                 /\ sepa_right >= risco(mt)
                 /\ (ss = num_steps - 1) <=> (sepa_right = risco(mt))
                 /\ \A x \in NormLog10Probes : IntegratorReachesIsco(x)
          /\ (pc \in {"pair", "done"} /\ npair > 0) =>
                 (ss = num_steps /\ sepa_left = risco(mt)))
    /\ [][(pc = "roll" /\ pc' # "step") => ss' = num_steps]_vars

\* a walk of two steps has been completed: the first step ended above the
\* ISCO and the second one at it
C22_Witness ==
    /\ pc \in {"pair", "done"} /\ npair > 0
    /\ num_steps = 2
    /\ ss = num_steps
    /\ sepa_left = risco(mt)
    /\ sepa_init > risco(mt)
    /\ PairSteps(ii, jj, 0)[1].sepa_right > risco(mt)

\* ------------------------------------------------ gravitational waves only
\* the steps of the Integrator with the rate of hard_gw alone
RECURSIVE GwLoop(_, _, _)
GwLoop(k, sepa_log, t) ==
    IF k >= num_steps THEN t
    ELSE LET sl == 2 ^ sepa_log
             sr == 2 ^ (sepa_log - StepSize(mt, sepa_init, num_steps))
         IN GwLoop(k + 1, sepa_log - StepSize(mt, sepa_init, num_steps),
                   t + DDiv(2 * RATE_SCALE * (sr - sl),
                            hard_gw(mt, mr, sl) + hard_gw(mt, mr, sr)))

\* the time to the ISCO of the current pair under gravitational waves alone
GwTime == GwLoop(0, sepa_init_log10, 0)

\* the norm_log10 values whose amplitude pow(10.0, norm_log10) underflows to 0.0
ZeroAmplitudes == {x \in NORM_LOG10_LO..NORM_LOG10_HI : Amplitude(x) = 0}

\* C23: with norm = 0 the total rate at the current separations is the rate
\* of hard_gw; norm = 0 is what the Integrator computes from a norm_log10 low
\* enough for pow(10.0, norm_log10) to underflow, and for every such
\* norm_log10 its time is the time under gravitational waves alone.
C23_GwOnly ==
    pc \in {"redz", "walk", "roll"} =>
        /\ \A sepa \in {sepa_left, sepa_right} :
               /\ hard_func_2pwl(0, sepa, hard_rchar, hard_gamma_inner, hard_gamma_outer) = 0
               /\ hard_func_2pwl_gw(mt, mr, sepa, 0, hard_rchar, hard_gamma_inner,
                                    hard_gamma_outer) = hard_gw(mt, mr, sepa)
        /\ ZeroAmplitudes # {}
        /\ \A x \in ZeroAmplitudes : PairTime(x) = GwTime

\* the walk of a pair has ended with a time shorter than the time under
\* gravitational waves alone, which the Integrator returns for a norm_log10
\* whose amplitude underflows
C23_Witness ==
    /\ WalkEnded
    /\ num_steps > 1
    /\ \E x \in ZeroAmplitudes : PairTime(x) = GwTime
    /\ GwTime > time_evo
    /\ time_evo > 0

\* ------------------------------------------------------ inputs are kept
\* what a statement of the Mapper or of the Solver leaves as it is: the
\* arrays and scalars passed in, the shared fields of the parameter struct,
\* and everything that belongs to the other function
InputsKept ==
    /\ minputs' = minputs
    /\ sinputs' = sinputs
    /\ pc # "idle" => (norm_log10' = norm_log10 /\ svars' = svars)
    /\ s_pc # "idle" =>
           /\ moutputs' = moutputs /\ mvars' = mvars
           /\ [args' EXCEPT !.mt = 0, !.mr = 0] = [args EXCEPT !.mt = 0, !.mr = 0]

\* C24: no statement of the Mapper or of the Solver changes an input: the
\* mass, ratio and redshift grids, density, GMT, normalization field, target
\* edges and scalar parameters stay as passed; the Mapper changes redz_final
\* and diff_num but not norm_log10, the Solver norm_log10 but not the fields.
C24_InputsUnchanged == [][InputsKept]_vars

\* a Mapper call has ended with written fields, and the ages of its redshift
\* grid are in an array of their own
C24_Witness ==
    /\ pc = "done"
    /\ nz > 1
    /\ \E c \in Cells : nwrites[c] > 0
    /\ \A k \in DOMAIN redz : redz_age[k] # redz[k]
    /\ \A k \in DOMAIN redz :
           redz_age[k] = interp_at_index(AgeCursor(0, redz[k]), redz[k],
                                         redz_interp_grid, tage_interp_grid)

\* ------------------------------------------------ the hint of the search
\* index is the lower bracket of val in edges
LowerBracket(index, size, val, edges) ==
    /\ index \in 0..(size - 2)
    /\ edges[index] <= val
    /\ val <= edges[index + 1]

\* every start hint gives the same index for val, and it is the lower bracket
HintFree(size, val, edges) ==
    \A start \in 0..(size - 1) :
        /\ while_while(start, size, val, edges) = while_while(0, size, val, edges)
        /\ LowerBracket(while_while(start, size, val, edges), size, val, edges)

\* C25: for the age table (strictly ascending, five entries) and a time_left
\* inside it, and for strictly ascending target edges (two or more) and a
\* fobs_orb_left inside them, while_while returns the same index from every
\* start hint, and that index is the lower bracket of the value.
C25_HintIndependent ==
    pc = "walk" =>
        /\ (tage_interp_grid[0] <= time_left /\ time_left <= tage_interp_grid[ninterp - 1])
               => HintFree(ninterp, time_left, tage_interp_grid)
        /\ (nf >= 2 /\ target_fobs_orb[0] <= fobs_orb_left
                    /\ fobs_orb_left <= target_fobs_orb[nf - 1])
               => HintFree(nf, fobs_orb_left, target_fobs_orb)

\* the Mapper has searched the age table for a time_left inside it, starting
\* from the cursor an earlier bin left above, and holds an index whose table
\* entry is later than time_left
C25_Witness ==
    /\ pc = "walk"
    /\ tage_interp_grid[0] <= time_left
    /\ time_left <= tage_interp_grid[ninterp - 1]
    /\ interp_left \in 1..(ninterp - 1)
    /\ tage_interp_grid[interp_left] > time_left
    /\ LowerBracket(while_while(0, ninterp, time_left, tage_interp_grid), ninterp,
                    time_left, tage_interp_grid)

\* ------------------------------------------- continuity from step to step
\* with a single start-redshift bin, the Mapper is about to compute the left
\* edge of a step after the first; its locals still hold the right edge of the
\* same bin at the previous step
AtNextStepOfBin == pc = "redz" /\ nz = 1 /\ ss > 0 /\ ~IsStalled

\* the left edge computed now is the right edge computed one step before
LeftEdgeIsLastRightEdge ==
    (AtNextStepOfBin /\ pc' \in {"walk", "roll"}) =>
        /\ time_left' = time_right
        /\ redz_left' = redz_right
        /\ fobs_orb_left' = fobs_orb_right

\* C26: for one pair and one start-redshift bin, the left edge of a step has
\* the time, the redshift and the observed frequency that the right edge of
\* the previous step had, so consecutive intervals (fobs_orb_left,
\* fobs_orb_right) meet without overlap or gap.
C26_ObservedFrameContinuous == [][LeftEdgeIsLastRightEdge]_vars

\* the left edge about to be computed starts at the time where the previous
\* step ended, but at another redshift and below the observed frequency at
\* which that step ended: the two intervals overlap
C26_Witness ==
    /\ AtNextStepOfBin
    /\ TimeLeft = time_right
    /\ RedzLeft # redz_right
    /\ FobsLeft < fobs_orb_right
    /\ fobs_orb_left < fobs_orb_right

\* ---------------------------------------------- indices of the target edges
\* C27: no read of target_fobs_orb by the Mapper has been outside 0..nf-1,
\* and the edge walk writes the fields only at a frequency index in 0..nf-1.
C27_TargetIndicesInRange ==
    pc # "idle" =>
        /\ ~oob
        /\ (pc = "walk" /\ WalkCond) => ff \in 0..(nf - 1)

\* with a single target edge, which lies above fobs_orb_left, the break test
\* and the cursor search have read inside the array and the diagnostic print
\* has read target_fobs_orb[fidx+1] = target_fobs_orb[1]
C27_Witness ==
    /\ pc = "walk"
    /\ nf = 1
    /\ fidx = 0
    /\ fobs_orb_left < target_fobs_orb[0]
    /\ OutOfRange(fidx + 1)
    /\ ~OutOfRange(fidx) /\ ~OutOfRange(nf - 1)
    /\ oob

\* ------------------------------------------------ the age precomputation
\* the Mapper called with a redshift grid that may reach below the table
AgeInit == InitGridsOver(RedzValuesWide) /\ InitFields(0) /\ InitCall
AgeSpec == AgeInit /\ [][AgeLoop]_vars

\* the redshift whose age was computed last
LastAgeIndex == nz - kk

\* C28: the age precomputation has read no table index of ninterp or above,
\* and when the redshift grid lies inside the table the age computed last was
\* interpolated at a cursor ii with
\* redz_interp_grid[ii] >= redz[k] >= redz_interp_grid[ii+1].
C28_AgeCursorInTable ==
    (pc \in {"age", "pair"} /\ kk >= 1) =>
        /\ ~oob
        /\ ii + 1 \in DOMAIN redz_interp_grid
        /\ (\A k \in DOMAIN redz : /\ redz[k] <= redz_interp_grid[0]
                                   /\ redz[k] >= redz_interp_grid[ninterp - 1]) =>
               /\ redz_interp_grid[ii] >= redz[LastAgeIndex]
               /\ redz[LastAgeIndex] >= redz_interp_grid[ii + 1]
               /\ redz_age[LastAgeIndex]
                      = interp_at_index(ii, redz[LastAgeIndex], redz_interp_grid,
                                        tage_interp_grid)

\* the lowest redshift of the grid lies below the last entry of the table, and
\* its age was computed with the cursor at the last index ninterp-1
C28_Witness ==
    /\ pc = "pair"
    /\ nz > 1
    /\ redz[0] < redz_interp_grid[ninterp - 1]
    /\ redz[nz - 1] >= redz_interp_grid[ninterp - 1]
    /\ ii = ninterp - 1
    /\ oob

\* ------------------------------------------------ the two outputs together
\* cell c is the cell of the target edge the walk stands on, the edge lies
\* strictly between the observed frequencies of the step, and the step stores
\* the positive redshift newz and its contribution in that cell
WrittenAtCrossing(c) ==
    /\ pc = "walk"
    /\ c = <<ii, jj, kk, ff>>
    /\ ff \in 0..(nf - 1)
    /\ fobs_orb_left < target_fobs_orb[ff]
    /\ target_fobs_orb[ff] < fobs_orb_right
    /\ newz' > 0
    /\ redz_final'[c] = newz'
    /\ diff_num'[c] = DiffNum(newz')
    /\ nwrites'[c] = nwrites[c] + 1

\* a step that changes a cell of either output writes both, at a crossing
OutputsWrittenTogether ==
    \A c \in Cells :
        (\/ redz_final'[c] # redz_final[c]
         \/ diff_num'[c] # diff_num[c]
         \/ nwrites'[c] # nwrites[c]) => WrittenAtCrossing(c)

\* C29: diff_num and redz_final are written together: a step writes a cell of
\* one exactly when it writes the same cell of the other, with a strictly
\* positive redshift, and the cell is that of a target edge strictly between
\* fobs_orb_left and fobs_orb_right of the step.
C29_WrittenTogether == [][OutputsWrittenTogether]_vars

\* a crossing has just been stored: both outputs hold a value in the cell
C29_Witness ==
    /\ pc = "walk"
    /\ ff >= 1
    /\ nwrites[<<ii, jj, kk, ff - 1>>] = 1
    /\ redz_final[<<ii, jj, kk, ff - 1>>] = newz
    /\ newz > 0
    /\ diff_num[<<ii, jj, kk, ff - 1>>] # 0
    /\ fobs_orb_left < target_fobs_orb[ff - 1]
    /\ target_fobs_orb[ff - 1] < fobs_orb_right

\* ------------------------------------------------ one pair at a time
\* the root finder as a function of its bracket, the residuals at its ends,
\* its iteration count and the parameters handed to the residual
RECURSIVE BrentqFrom(_, _, _, _, _, _)
BrentqFrom(a, b, f_a, f_b, n, p) ==
    IF (b - a <= XTOL + RTOL * Abs(b)) \/ (n >= MITR)
    THEN IF Abs(f_a) <= Abs(f_b) THEN a ELSE b
    ELSE LET xm == (a + b) \div 2
             fm == integrate_binary_evolution_2pl_resid(xm, p)
         IN IF fm = 0 THEN BrentqFrom(xm, xm, fm, fm, n + 1, p)
            ELSE IF SameSign(fm, f_b) THEN BrentqFrom(a, xm, f_a, fm, n + 1, p)
            ELSE BrentqFrom(xm, b, fm, f_b, n + 1, p)

\* brentq(_integrate_binary_evolution_2pl, NORM_LOG10_LO, NORM_LOG10_HI, &args, ...)
brentq(p) ==
    LET flo == integrate_binary_evolution_2pl_resid(NORM_LOG10_LO, p)
        fhi == integrate_binary_evolution_2pl_resid(NORM_LOG10_HI, p)
    IN IF SameSign(flo, fhi) THEN 0
       ELSE IF flo = 0 THEN NORM_LOG10_LO
       ELSE IF fhi = 0 THEN NORM_LOG10_HI
       ELSE BrentqFrom(NORM_LOG10_LO, NORM_LOG10_HI, flo, fhi, 0, p)

\* the parameters of a solve for the masses (m, q) alone: the shared
\* parameters of the call, and nothing of any other pair
PairArgs(m, q) ==
    [target_time |-> time, mt |-> m, mr |-> q, sepa_init |-> args.sepa_init,
     rchar |-> args.rchar, gamma_inner |-> args.gamma_inner,
     gamma_outer |-> args.gamma_outer, nsteps |-> args.nsteps]

\* the pairs whose value has been stored
Solved == {i \in DOMAIN norm_log10 : i < s_ii}

\* the reorderings of the batch
BatchOrders == {p \in [DOMAIN s_mtot -> DOMAIN s_mtot] : \A i \in DOMAIN s_mtot :
                                                             \E j \in DOMAIN s_mtot : p[j] = i}

\* C30: the value stored for pair i is the value a solve for (mtot[i], mrat[i])
\* with the shared parameters gives on its own, wherever the pair stands in
\* the batch and whatever pairs were solved before it; so a batch given in
\* another order gives the same values in that order.
C30_PairsIndependent ==
    s_pc \in {"solve", "brentq", "done"} =>
        /\ \A i \in Solved : norm_log10[i] = brentq(PairArgs(s_mtot[i], s_mrat[i]))
        /\ \A i, j \in Solved :
               (s_mtot[i] = s_mtot[j] /\ s_mrat[i] = s_mrat[j]) => norm_log10[i] = norm_log10[j]
        /\ s_pc = "done" =>
               \A p \in BatchOrders :
                   [i \in DOMAIN s_mtot |-> brentq(PairArgs(s_mtot[p[i]], s_mrat[p[i]]))]
                       = [i \in DOMAIN s_mtot |-> norm_log10[p[i]]]

\* a finished batch of two pairs of different total mass and different
\* values, the second found by iterating after the first had left its
\* masses in the struct
C30_Witness ==
    /\ s_pc = "done"
    /\ Size(s_mtot) = 2
    /\ s_mtot[0] # s_mtot[1]
    /\ norm_log10[0] # norm_log10[1]
    /\ norm_log10[0] # 0
    /\ norm_log10[1] # 0
    /\ iter > 0
    /\ args.mt = s_mtot[1]

====
